---- MODULE Spec2Model ----
(***************************************************************************)
(* Model of swaybar_status_manager (src/src/main.rs): the swaybar protocol *)
(* entities Header and Block with their serde serialization, and the       *)
(* streaming loop of main() that writes the header, opens the body array   *)
(* and then, once per tick, writes one snapshot, sleeps and reads stdin up *)
(* to the next '}'.                                                        *)
(*                                                                         *)
(* Text is modelled as sequences of tokens (strings); Flatten gives the    *)
(* byte string.  stdout is the line-buffered std::io::Stdout: wbuf is the  *)
(* buffer, out is what reached the file descriptor.  The model follows     *)
(* main() up to a panic of one of its unwrap() calls, where main ends.     *)
(***************************************************************************)
EXTENDS Integers, Sequences, FiniteSets, TLC

VARIABLES
    hdr,      \* the Header value built at line 183
    header,   \* local `header`: the serialized header (tokens)
    block,    \* local `block` of lines 188-189
    calls,    \* history: the mutators called on `block`, in order
    body,     \* local `body`: the serialized block (tokens)
    wbuf,     \* stdout's LineWriter buffer: written, not yet flushed
    out,      \* bytes that reached the output stream, as tokens
    pending,  \* stdin: bytes the host has sent and main has not consumed
    nSent,    \* stdin: number of bytes the host has sent so far
    inOpen,   \* stdin: the host still holds the write end open
    rbuf,     \* local `buf` of line 194
    evObj,    \* the keys of a JSON object handed to ClientEvent's decoder
    decoded,  \* the outcome of that decoding
    pc,       \* position of main
    ticks,    \* completed loop iterations
    sleeps,   \* completed thread::sleep calls
    snaps,    \* snapshots written and flushed (line 192 returned Ok)
    src,      \* history: the texts the content source returned, in order
    readErr,  \* history: read_until returned an I/O error
    reads,    \* history: the bytes each read_until call returned with
    failure   \* "none", or which unwrap() panicked: "write", "flush", "read"

vars == <<hdr, header, block, calls, body, wbuf, out, pending, nSent, inOpen,
          rbuf, evObj, decoded, pc, ticks, sleeps, snaps, src, readErr, reads,
          failure>>

(***************************************************************************)
(* Bounds                                                                  *)
(***************************************************************************)
MaxTicks == 3
MaxInput == 3
MaxCalls == 3
\* the bytes the host may send: an opening brace, the ten fields of a
\* click event, the closing brace
InBytes == {"{", "k", "}"}

(***************************************************************************)
(* Option<T>: None is the empty sequence, Some(x) a one-element sequence.  *)
(***************************************************************************)
None == <<>>
Some(x) == <<x>>

(***************************************************************************)
(* serde_json primitives                                                   *)
(***************************************************************************)
\* a JSON string: the text between double quotes.  The texts of this
\* program (field names, the clock format) hold no character that
\* serde_json escapes.
JsonString(s) == "\"" \o s \o "\""
JsonBool(b) == IF b THEN "true" ELSE "false"
JsonNumber(n) == ToString(n)

\* one field of a derived Serialize impl: "key":value
Field(key, value) == <<JsonString(key), ":", value>>
\* mutant: skip_serializing_if is missing, None is written as null
OptFieldNull(key, opt, value) ==
    << Field(key, IF opt = None THEN "null" ELSE value) >>

\* a field with #[serde(skip_serializing_if = "Option::is_none")]
OptField(key, opt, value) == IF opt = None THEN <<>> ELSE << Field(key, value) >>

RECURSIVE JoinFields(_)
JoinFields(fs) ==
    IF fs = <<>> THEN <<>>
    ELSE IF Len(fs) = 1 THEN fs[1]
    ELSE fs[1] \o <<",">> \o JoinFields(Tail(fs))

\* serde_json::to_string of a struct: the present fields, in declaration
\* order, comma separated, between braces
SerializeStruct(fs) == <<"{">> \o JoinFields(fs) \o <<"}">>

RECURSIVE Flatten(_)
Flatten(toks) == IF toks = <<>> THEN "" ELSE toks[1] \o Flatten(Tail(toks))

(***************************************************************************)
(* Header                                                                  *)
(***************************************************************************)
HeaderNew(version) ==
    [version |-> version, click_events |-> None,
     const_signal |-> None, stop_signal |-> None]

SerializeHeader(h) ==
    SerializeStruct(
        << Field("version", JsonNumber(h.version)) >>
        \o OptField("click_events", h.click_events,
                    IF h.click_events = None THEN "" ELSE JsonBool(h.click_events[1]))
        \o OptField("const_signal", h.const_signal,
                    IF h.const_signal = None THEN "" ELSE JsonNumber(h.const_signal[1]))
        \o OptField("stop_signal", h.stop_signal,
                    IF h.stop_signal = None THEN "" ELSE JsonNumber(h.stop_signal[1])))

(***************************************************************************)
(* Block                                                                   *)
(***************************************************************************)
BlockNew(full_text) ==
    [full_text |-> full_text, short_text |-> None, name |-> None,
     color |-> None, background |-> None, border |-> None,
     border_top |-> None, border_right |-> None, border_bottom |-> None,
     border_left |-> None, min_width |-> None, align |-> None,
     instance |-> None, urgent |-> None, seperator |-> None,
     seperator_block_width |-> None, markup |-> None]

\* mutant: color rebuilds the block and keeps only the text
BlockColorResets(b, color) == [BlockNew(b.full_text) EXCEPT !.color = Some(color)]

BlockColor(b, color) == [b EXCEPT !.color = Some(color)]
BlockBackground(b, background) == [b EXCEPT !.background = Some(background)]
WithSeperator(b) == [b EXCEPT !.seperator = Some(TRUE)]

OptString(key, opt) == OptField(key, opt, IF opt = None THEN "" ELSE JsonString(opt[1]))
OptNumber(key, opt) == OptField(key, opt, IF opt = None THEN "" ELSE JsonNumber(opt[1]))
OptBool(key, opt) == OptField(key, opt, IF opt = None THEN "" ELSE JsonBool(opt[1]))

\* mutant: the background is written from the color field
BlockFieldsBackgroundFromColor(b) ==
    << Field("full_text", JsonString(b.full_text)) >>
    \o OptString("short_text", b.short_text)
    \o OptString("name", b.name)
    \o OptString("color", b.color)
    \o OptString("background", b.color)
    \o OptString("border", b.border)
    \o OptNumber("border_top", b.border_top)
    \o OptNumber("border_right", b.border_right)
    \o OptNumber("border_bottom", b.border_bottom)
    \o OptNumber("border_left", b.border_left)
    \o OptNumber("min_width", b.min_width)
    \o OptString("align", b.align)
    \o OptString("instance", b.instance)
    \o OptBool("urgent", b.urgent)
    \o OptBool("seperator", b.seperator)
    \o OptBool("seperator_block_width", b.seperator_block_width)
    \o OptString("markup", b.markup)

BlockFields(b) ==
    << Field("full_text", JsonString(b.full_text)) >>
    \o OptString("short_text", b.short_text)
    \o OptString("name", b.name)
    \o OptString("color", b.color)
    \o OptString("background", b.background)
    \o OptString("border", b.border)
    \o OptNumber("border_top", b.border_top)
    \o OptNumber("border_right", b.border_right)
    \o OptNumber("border_bottom", b.border_bottom)
    \o OptNumber("border_left", b.border_left)
    \o OptNumber("min_width", b.min_width)
    \o OptString("align", b.align)
    \o OptString("instance", b.instance)
    \o OptBool("urgent", b.urgent)
    \o OptBool("seperator", b.seperator)
    \o OptBool("seperator_block_width", b.seperator_block_width)
    \o OptString("markup", b.markup)

SerializeBlock(b) == SerializeStruct(BlockFields(b))

(***************************************************************************)
(* The content source: Local::now().format("%H:%M:%S  %Y.%m.%d")           *)
(***************************************************************************)
\* readings of the local clock; the local time may repeat or step back
ClockReads ==
    { [H |-> 23, M |-> 59, S |-> 59, Y |-> 2024, mo |-> 1, d |-> 1],
      [H |-> 0, M |-> 0, S |-> 0, Y |-> 2024, mo |-> 1, d |-> 2] }

\* %H, %M, %S, %m, %d: two digits, zero padded
Pad2(n) == IF n < 10 THEN "0" \o ToString(n) ELSE ToString(n)
\* %Y: at least four digits, zero padded
Pad4(n) == IF n < 10 THEN "000" \o ToString(n)
           ELSE IF n < 100 THEN "00" \o ToString(n)
           ELSE IF n < 1000 THEN "0" \o ToString(n)
           ELSE ToString(n)

FormatClock(t) ==
    Pad2(t.H) \o ":" \o Pad2(t.M) \o ":" \o Pad2(t.S) \o "  "
    \o Pad4(t.Y) \o "." \o Pad2(t.mo) \o "." \o Pad2(t.d)

(***************************************************************************)
(* Sequences helpers                                                       *)
(***************************************************************************)
IsPrefix(s, t) == Len(s) <= Len(t) /\ SubSeq(t, 1, Len(s)) = s
Drop(s, n) == SubSeq(s, n + 1, Len(s))

(***************************************************************************)
(* stdout: LineWriter over the raw stream                                  *)
(***************************************************************************)
\* the data a write call hands to the raw stream is accepted whole ...
RawWriteOk(data) ==
    /\ out' = out \o data
    /\ wbuf' = <<>>

\* mutant: the error of a failed write is dropped, main goes on
RawWriteFailIgnored(data, what) ==
    /\ data # <<>>
    /\ \E n \in 0..(Len(data) - 1) :
          /\ out' = out \o SubSeq(data, 1, n)
          /\ wbuf' = Drop(data, n)
    /\ pc' = pc
    /\ failure' = what

\* ... or the call fails after the stream accepted a proper prefix of
\* it; the rest stays in the buffer and the error reaches unwrap()
RawWriteFail(data, what) ==
    /\ data # <<>>
    /\ \E n \in 0..(Len(data) - 1) :
          /\ out' = out \o SubSeq(data, 1, n)
          /\ wbuf' = Drop(data, n)
    /\ pc' = "panicked"
    /\ failure' = what

(***************************************************************************)
(* ClientEvent                                                             *)
(***************************************************************************)
\* the bytes of a click event: one object holding the ten fields, which
\* the token "k" stands for
IsClientEvent(bytes) == bytes = <<"{", "k", "}">>

\* the fields of struct ClientEvent, none of them optional or defaulted
ClientEventFields ==
    {"name", "instance", "x", "y", "button", "event", "relative_x",
     "relative_y", "width", "height"}

NotDecoded == [result |-> "none", fields |-> {}]

\* mutant: the struct is declared with #[serde(deny_unknown_fields)]
DecodeDenyUnknown(keys) ==
    IF \E k \in keys : k \notin ClientEventFields
    THEN [result |-> "Err", fields |-> {}]
    ELSE IF \E f \in ClientEventFields : f \notin keys
    THEN [result |-> "Err", fields |-> {}]
    ELSE [result |-> "Ok", fields |-> ClientEventFields]

\* the derived Deserialize of ClientEvent on an object with the given keys
\* (values of the fields' types): a key that is a field fills it, any other
\* key is skipped, and a field left unfilled is the error "missing field"
DecodeClientEvent(keys) ==
    LET filled == {k \in keys : k \in ClientEventFields}
    IN IF \E f \in ClientEventFields : f \notin filled
       THEN [result |-> "Err", fields |-> {}]
       ELSE [result |-> "Ok", fields |-> filled]

(***************************************************************************)
(* stdin: BufRead::read_until(b'}', &mut buf)                              *)
(***************************************************************************)
\* index of the first delimiter in the available bytes, 0 if none
RECURSIVE FirstDelim(_, _)
FirstDelim(avail, i) ==
    IF i > Len(avail) THEN 0
    ELSE IF avail[i] = "}" THEN i
    ELSE FirstDelim(avail, i + 1)

\* the bytes read_until takes out of the available bytes
Used(avail) ==
    IF FirstDelim(avail, 1) > 0 THEN FirstDelim(avail, 1) ELSE Len(avail)

(***************************************************************************)
(* main                                                                    *)
(***************************************************************************)
Init ==
    /\ hdr = HeaderNew(1)
    /\ header = <<>>
    /\ block = BlockNew("")
    /\ calls = <<>>
    /\ body = <<>>
    /\ wbuf = <<>>
    /\ out = <<>>
    /\ pending = <<>>
    /\ nSent = 0
    /\ inOpen = TRUE
    /\ rbuf = <<>>
    /\ evObj = {}
    /\ decoded = NotDecoded
    /\ pc = "l183"
    /\ ticks = 0
    /\ sleeps = 0
    /\ snaps = 0
    /\ src = <<>>
    /\ readErr = FALSE
    /\ reads = <<>>
    /\ failure = "none"

\* line 183: let header = serde_json::to_string(&Header::new(1)).unwrap()
SerializeHeaderStep ==
    /\ pc = "l183"
    /\ header' = SerializeHeader(hdr)
    /\ pc' = "l184"
    /\ UNCHANGED <<hdr, block, calls, evObj, decoded, body, wbuf, out, pending, nSent, inOpen, rbuf, ticks,
                   sleeps, snaps, src, readErr, reads, failure,
                   reads>>

\* line 184: write!(stdout, "{}\n[", header).unwrap()
\* the line up to the newline goes to the stream, "[" stays buffered
WriteHeader ==
    /\ pc = "l184"
    /\ out' = out \o wbuf \o header \o <<"\n">>
    /\ wbuf' = <<"[">>
    /\ pc' = "l185"
    /\ UNCHANGED <<hdr, block, calls, evObj, decoded, header, body, pending, nSent, inOpen, rbuf, ticks, sleeps,
                   snaps, src, readErr, failure,
                   reads>>

WriteHeaderFail ==
    /\ pc = "l184"
    /\ RawWriteFail(wbuf \o header \o <<"\n">>, "write")
    /\ UNCHANGED <<hdr, block, calls, evObj, decoded, header, body, pending, nSent, inOpen, rbuf, ticks, sleeps,
                   snaps, src, readErr,
                   reads>>

\* line 185: stdout.flush().unwrap()
FlushHeader ==
    /\ pc = "l185"
    /\ RawWriteOk(wbuf)
    /\ pc' = "l188"
    /\ UNCHANGED <<hdr, block, calls, evObj, decoded, header, body, pending, nSent, inOpen, rbuf, ticks, sleeps,
                   snaps, src, readErr, failure,
                   reads>>

FlushHeaderFail ==
    /\ pc = "l185"
    /\ RawWriteFail(wbuf, "flush")
    /\ UNCHANGED <<hdr, block, calls, evObj, decoded, header, body, pending, nSent, inOpen, rbuf, ticks, sleeps,
                   snaps, src, readErr,
                   reads>>

\* mutant: a click read in the tick before marks the block
BuildSnapshotShowsClick ==
    /\ pc = "l188"
    /\ ticks < MaxTicks
    /\ \E now \in ClockReads :
          LET b == WithSeperator(BlockNew(FormatClock(now)))
              shown == IF reads # <<>> /\ IsClientEvent(reads[Len(reads)])
                       THEN [b EXCEPT !.urgent = Some(TRUE)] ELSE b
          IN /\ src' = Append(src, FormatClock(now))
             /\ block' = shown
             /\ calls' = << <<"with_seperator", "">> >>
             /\ body' = SerializeBlock(shown)
    /\ pc' = "l191"
    /\ UNCHANGED <<hdr, evObj, decoded, header, wbuf, out, pending, nSent,
                   inOpen, rbuf, ticks, sleeps, snaps, readErr, failure,
                   reads>>

\* lines 188-190: build the block from the clock, mark the separator,
\* serialize it
BuildSnapshot ==
    /\ pc = "l188"
    /\ ticks < MaxTicks
    /\ \E now \in ClockReads :
          /\ src' = Append(src, FormatClock(now))
          /\ block' = WithSeperator(BlockNew(FormatClock(now)))
          /\ calls' = << <<"with_seperator", "">> >>
          /\ body' = SerializeBlock(WithSeperator(BlockNew(FormatClock(now))))
    /\ pc' = "l191"
    /\ UNCHANGED <<hdr, evObj, decoded, header, wbuf, out, pending, nSent, inOpen, rbuf, ticks,
                   sleeps, snaps, readErr, failure,
                   reads>>

\* mutant: the header is written again with every snapshot
WriteSnapshotWithHeader ==
    /\ pc = "l191"
    /\ wbuf' = wbuf \o header \o <<"[">> \o body \o <<"]", ",">>
    /\ pc' = "l192"
    /\ UNCHANGED <<hdr, block, calls, evObj, decoded, header, body, out, pending, nSent, inOpen, rbuf,
                   ticks, sleeps, snaps, src, readErr, failure,
                   reads>>

\* mutant: the array is closed after every snapshot
WriteSnapshotClosed ==
    /\ pc = "l191"
    /\ wbuf' = wbuf \o <<"[">> \o body \o <<"]", "]">>
    /\ pc' = "l192"
    /\ UNCHANGED <<hdr, block, calls, evObj, decoded, header, body, out, pending, nSent, inOpen, rbuf,
                   ticks, sleeps, snaps, src, readErr, failure,
                   reads>>

\* line 191: write!(stdout, "[{}],", body).unwrap()
\* no newline in the text: it is only buffered
WriteSnapshot ==
    /\ pc = "l191"
    /\ wbuf' = wbuf \o <<"[">> \o body \o <<"]", ",">>
    /\ pc' = "l192"
    /\ UNCHANGED <<hdr, block, calls, evObj, decoded, header, body, out, pending, nSent, inOpen, rbuf, ticks,
                   sleeps, snaps, src, readErr, reads, failure,
                   reads>>

\* mutant: the flush hands part of the buffer to the stream and returns
FlushSnapshotPartial ==
    /\ pc = "l192"
    /\ \E n \in 0..(Len(wbuf) - 1) :
          /\ out' = out \o SubSeq(wbuf, 1, n)
          /\ wbuf' = Drop(wbuf, n)
    /\ snaps' = snaps + 1
    /\ pc' = "l193"
    /\ UNCHANGED <<hdr, block, calls, evObj, decoded, header, body, pending,
                   nSent, inOpen, rbuf, ticks, sleeps, src, readErr, reads,
                   failure>>

\* mutant: the flush of line 192 is missing
FlushSnapshotMissing ==
    /\ pc = "l192"
    /\ snaps' = snaps + 1
    /\ pc' = "l193"
    /\ UNCHANGED <<hdr, block, calls, evObj, decoded, header, body, wbuf, out, pending, nSent, inOpen,
                   rbuf, ticks, sleeps, src, readErr, failure,
                   reads>>

\* line 192: stdout.flush().unwrap()
FlushSnapshot ==
    /\ pc = "l192"
    /\ RawWriteOk(wbuf)
    /\ snaps' = snaps + 1
    /\ pc' = "l193"
    /\ UNCHANGED <<hdr, block, calls, evObj, decoded, header, body, pending, nSent, inOpen, rbuf, ticks, sleeps,
                   src, readErr, failure,
                   reads>>

FlushSnapshotFail ==
    /\ pc = "l192"
    /\ RawWriteFail(wbuf, "flush")
    /\ UNCHANGED <<hdr, block, calls, evObj, decoded, header, body, pending, nSent, inOpen, rbuf, ticks, sleeps,
                   snaps, src, readErr,
                   reads>>

\* line 193: thread::sleep(Duration::from_secs(1))
Sleep ==
    /\ pc = "l193"
    /\ sleeps' = sleeps + 1
    /\ pc' = "l194"
    /\ UNCHANGED <<hdr, block, calls, evObj, decoded, header, body, wbuf, out, pending, nSent, inOpen, rbuf,
                   ticks, snaps, src, readErr, failure,
                   reads>>

\* line 194: let mut buf: Vec<u8> = Vec::new()
NewBuf ==
    /\ pc = "l194"
    /\ rbuf' = <<>>
    /\ pc' = "l195"
    /\ UNCHANGED <<hdr, block, calls, evObj, decoded, header, body, wbuf, out, pending, nSent, inOpen, ticks,
                   sleeps, snaps, src, readErr, reads, failure,
                   reads>>

\* mutant: the read takes everything that is available
ReadUntilDrains ==
    /\ pc = "l195"
    /\ pending # <<>>
    /\ \E n \in 1..Len(pending) :
          LET avail == SubSeq(pending, 1, n)
              done == FirstDelim(avail, 1) > 0
          IN /\ rbuf' = rbuf \o avail
             /\ reads' = IF done THEN Append(reads, rbuf \o avail) ELSE reads
             /\ pending' = Drop(pending, n)
             /\ pc' = IF done THEN "l196" ELSE "l195"
    /\ UNCHANGED <<hdr, block, calls, evObj, decoded, header, body, wbuf,
                   out, nSent, inOpen, ticks, sleeps, snaps, src, readErr,
                   failure>>

\* mutant: the bytes read are decoded as a ClientEvent and the result is
\* unwrapped
ReadUntilDecodeUnwrap ==
    /\ pc = "l195"
    /\ pending # <<>>
    /\ \E n \in 1..Len(pending) :
          LET avail == SubSeq(pending, 1, n)
              used == Used(avail)
              done == FirstDelim(avail, 1) > 0
              bytes == rbuf \o SubSeq(avail, 1, used)
          IN /\ rbuf' = bytes
             /\ reads' = IF done THEN Append(reads, bytes) ELSE reads
             /\ pending' = Drop(pending, used)
             /\ pc' = IF ~done THEN "l195"
                      ELSE IF IsClientEvent(bytes) THEN "l196" ELSE "panicked"
             /\ failure' = IF done /\ ~IsClientEvent(bytes) THEN "decode" ELSE failure
    /\ UNCHANGED <<hdr, block, calls, evObj, decoded, header, body, wbuf, out, nSent, inOpen, ticks,
                   sleeps, snaps, src, readErr>>

\* line 195: stdin.read_until(b'}', &mut buf).unwrap()
\* one round of read_until's loop on the bytes fill_buf makes available:
\* take them up to and including the first '}', return if it was there
ReadUntil ==
    /\ pc = "l195"
    /\ pending # <<>>
    /\ \E n \in 1..Len(pending) :
          LET avail == SubSeq(pending, 1, n)
              used == Used(avail)
          IN /\ rbuf' = rbuf \o SubSeq(avail, 1, used)
             /\ reads' = IF FirstDelim(avail, 1) > 0
                       THEN Append(reads, rbuf \o SubSeq(avail, 1, used))
                       ELSE reads
             /\ pending' = Drop(pending, used)
             /\ pc' = IF FirstDelim(avail, 1) > 0 THEN "l196" ELSE "l195"
    /\ UNCHANGED <<hdr, block, calls, evObj, decoded, header, body, wbuf, out, nSent, inOpen, ticks,
                   sleeps, snaps, src, readErr, failure>>

\* mutant: end-of-stream ends the loop
ReadEofStops ==
    /\ pc = "l195"
    /\ pending = <<>>
    /\ ~inOpen
    /\ pc' = "exited"
    /\ reads' = Append(reads, rbuf)
    /\ UNCHANGED <<hdr, block, calls, evObj, decoded, header, body, wbuf, out, pending, nSent, inOpen, rbuf,
                   ticks, sleeps, snaps, src, readErr, failure>>

\* fill_buf finds end-of-stream: read_until returns Ok with what it has
ReadEof ==
    /\ pc = "l195"
    /\ pending = <<>>
    /\ ~inOpen
    /\ pc' = "l196"
    /\ reads' = Append(reads, rbuf)
    /\ UNCHANGED <<hdr, block, calls, evObj, decoded, header, body, wbuf, out, pending, nSent, inOpen, rbuf,
                   ticks, sleeps, snaps, src, readErr, failure>>

\* the read of the open stream fails: read_until returns Err, unwrap()
\* panics
ReadError ==
    /\ pc = "l195"
    /\ pending = <<>>
    /\ inOpen
    /\ readErr' = TRUE
    /\ pc' = "panicked"
    /\ failure' = "read"
    /\ UNCHANGED <<hdr, block, calls, evObj, decoded, header, body, wbuf, out, pending, nSent, inOpen, rbuf,
                   ticks, sleeps, snaps, src,
                   reads>>

\* line 196: stdout.flush().unwrap(), the end of the iteration; `buf` is
\* dropped.  The buffer is empty here, so no write reaches the stream.
FlushAfterRead ==
    /\ pc = "l196"
    /\ RawWriteOk(wbuf)
    /\ rbuf' = <<>>
    /\ ticks' = ticks + 1
    /\ pc' = "l188"
    /\ UNCHANGED <<hdr, block, calls, evObj, decoded, header, body, pending, nSent, inOpen, sleeps, snaps, src,
                   readErr, failure,
                   reads>>

(***************************************************************************)
(* The host (swaybar) at the other end of stdin                            *)
(***************************************************************************)
HostSend ==
    /\ inOpen
    /\ nSent < MaxInput
    /\ \E b \in InBytes : pending' = Append(pending, b)
    /\ nSent' = nSent + 1
    /\ UNCHANGED <<hdr, block, calls, evObj, decoded, header, body, wbuf, out, inOpen, rbuf, pc, ticks,
                   sleeps, snaps, src, readErr, reads, failure,
                   reads>>

HostClose ==
    /\ inOpen
    /\ inOpen' = FALSE
    /\ UNCHANGED <<hdr, block, calls, evObj, decoded, header, body, wbuf, out, pending, nSent, rbuf, pc,
                   ticks, sleeps, snaps, src, readErr, failure,
                   reads>>

MainNext ==
    \/ SerializeHeaderStep
    \/ WriteHeader
    \/ WriteHeaderFail
    \/ FlushHeader
    \/ FlushHeaderFail
    \/ BuildSnapshot
    \/ WriteSnapshot
    \/ FlushSnapshot
    \/ FlushSnapshotFail
    \/ Sleep
    \/ NewBuf
    \/ ReadUntil
    \/ ReadEof
    \/ ReadError
    \/ FlushAfterRead

Next ==
    \/ MainNext
    \/ HostSend
    \/ HostClose

Spec == Init /\ [][Next]_vars

\* main runs whenever it can: a step that is possible is not put off for
\* ever.  Failures of the streams are the environment's and not forced.
MainProgress ==
    \/ SerializeHeaderStep
    \/ WriteHeader
    \/ FlushHeader
    \/ BuildSnapshot
    \/ WriteSnapshot
    \/ FlushSnapshot
    \/ Sleep
    \/ NewBuf
    \/ ReadUntil
    \/ ReadEof
    \/ FlushAfterRead

FairSpec == Spec /\ WF_vars(MainProgress)

(***************************************************************************)
(* Serialization of any Header value                                       *)
(***************************************************************************)
OptionOf(S) == {None} \cup {Some(x) : x \in S}

\* version: u8, click_events: Option<bool>, the signals: Option<u32>
HeaderValues ==
    [version : {0, 1, 255},
     click_events : OptionOf(BOOLEAN),
     const_signal : OptionOf({0, 18}),
     stop_signal : OptionOf({19, 2147483647})]

InitHeader ==
    /\ hdr \in HeaderValues
    /\ header = <<>>
    /\ block = BlockNew("")
    /\ calls = <<>>
    /\ body = <<>>
    /\ wbuf = <<>>
    /\ out = <<>>
    /\ pending = <<>>
    /\ nSent = 0
    /\ inOpen = TRUE
    /\ rbuf = <<>>
    /\ evObj = {}
    /\ decoded = NotDecoded
    /\ pc = "l183"
    /\ ticks = 0
    /\ sleeps = 0
    /\ snaps = 0
    /\ src = <<>>
    /\ readErr = FALSE
    /\ reads = <<>>
    /\ failure = "none"

SpecHeader == InitHeader /\ [][SerializeHeaderStep]_vars

(***************************************************************************)
(* Serialization of any Block value                                        *)
(***************************************************************************)
\* every combination of set and unset optional fields, with values of the
\* fields' types: String, u8, u32, bool
BlockValues ==
    [full_text : {"A"},
     short_text : OptionOf({"a"}),
     name : OptionOf({"clock"}),
     color : OptionOf({"#ff0000"}),
     background : OptionOf({"#00000080"}),
     border : OptionOf({"#ffffff"}),
     border_top : OptionOf({0}),
     border_right : OptionOf({1}),
     border_bottom : OptionOf({255}),
     border_left : OptionOf({2}),
     min_width : OptionOf({300}),
     align : OptionOf({"center"}),
     instance : OptionOf({"i"}),
     urgent : OptionOf({TRUE}),
     seperator : OptionOf(BOOLEAN),
     seperator_block_width : OptionOf({FALSE}),
     markup : OptionOf({"pango"})]

InitBlock ==
    /\ hdr = HeaderNew(1)
    /\ header = <<>>
    /\ block \in BlockValues
    /\ calls = <<>>
    /\ body = <<>>
    /\ wbuf = <<>>
    /\ out = <<>>
    /\ pending = <<>>
    /\ nSent = 0
    /\ inOpen = TRUE
    /\ rbuf = <<>>
    /\ evObj = {}
    /\ decoded = NotDecoded
    /\ pc = "l190"
    /\ ticks = 0
    /\ sleeps = 0
    /\ snaps = 0
    /\ src = <<>>
    /\ readErr = FALSE
    /\ reads = <<>>
    /\ failure = "none"

\* line 190: let body = serde_json::to_string(&block).unwrap()
SerializeBlockStep ==
    /\ pc = "l190"
    /\ body' = SerializeBlock(block)
    /\ pc' = "l191"
    /\ UNCHANGED <<hdr, header, block, calls, wbuf, out, pending, nSent,
                   inOpen, rbuf, evObj, decoded, ticks, sleeps, snaps, src,
                   readErr, reads, failure>>

SpecBlock == InitBlock /\ [][SerializeBlockStep]_vars

(***************************************************************************)
(* The Block mutators, called in any order                                 *)
(***************************************************************************)
ColorValues == {"#ff0000", "#00ff0080"}

\* Block::new, and a block that already has fields set
StartBlocks ==
    { BlockNew("A"),
      [BlockNew("A") EXCEPT !.name = Some("clock"), !.urgent = Some(TRUE),
                            !.color = Some("#000000"),
                            !.border_top = Some(1)] }

InitMutators ==
    /\ hdr = HeaderNew(1)
    /\ header = <<>>
    /\ block \in StartBlocks
    /\ calls = <<>>
    /\ body = <<>>
    /\ wbuf = <<>>
    /\ out = <<>>
    /\ pending = <<>>
    /\ nSent = 0
    /\ inOpen = TRUE
    /\ rbuf = <<>>
    /\ evObj = {}
    /\ decoded = NotDecoded
    /\ pc = "l189"
    /\ ticks = 0
    /\ sleeps = 0
    /\ snaps = 0
    /\ src = <<>>
    /\ readErr = FALSE
    /\ reads = <<>>
    /\ failure = "none"

\* block.color(color)
CallColor ==
    /\ pc = "l189"
    /\ Len(calls) < MaxCalls
    /\ \E c \in ColorValues :
          /\ block' = BlockColor(block, c)
          /\ calls' = Append(calls, <<"color", c>>)
    /\ UNCHANGED <<hdr, header, body, wbuf, out, pending, nSent, inOpen,
                   rbuf, evObj, decoded, pc, ticks, sleeps, snaps, src,
                   readErr, reads, failure>>

\* block.background(background)
CallBackground ==
    /\ pc = "l189"
    /\ Len(calls) < MaxCalls
    /\ \E c \in ColorValues :
          /\ block' = BlockBackground(block, c)
          /\ calls' = Append(calls, <<"background", c>>)
    /\ UNCHANGED <<hdr, header, body, wbuf, out, pending, nSent, inOpen,
                   rbuf, evObj, decoded, pc, ticks, sleeps, snaps, src,
                   readErr, reads, failure>>

\* block.with_seperator()
CallWithSeperator ==
    /\ pc = "l189"
    /\ Len(calls) < MaxCalls
    /\ block' = WithSeperator(block)
    /\ calls' = Append(calls, <<"with_seperator", "">>)
    /\ UNCHANGED <<hdr, header, body, wbuf, out, pending, nSent, inOpen,
                   rbuf, evObj, decoded, pc, ticks, sleeps, snaps, src,
                   readErr, reads, failure>>

NextMutators ==
    \/ CallColor
    \/ CallBackground
    \/ CallWithSeperator

SpecMutators == InitMutators /\ [][NextMutators]_vars

(***************************************************************************)
(* Decoding any object as a ClientEvent                                    *)
(***************************************************************************)
\* keys swaybar sends that the struct does not name
UnknownKeys == {"scale", "modifiers"}

InitDecode ==
    /\ hdr = HeaderNew(1)
    /\ header = <<>>
    /\ block = BlockNew("")
    /\ calls = <<>>
    /\ body = <<>>
    /\ wbuf = <<>>
    /\ out = <<>>
    /\ pending = <<>>
    /\ nSent = 0
    /\ inOpen = TRUE
    /\ rbuf = <<>>
    /\ evObj \in SUBSET (ClientEventFields \cup UnknownKeys)
    /\ decoded = NotDecoded
    /\ pc = "decode"
    /\ ticks = 0
    /\ sleeps = 0
    /\ snaps = 0
    /\ src = <<>>
    /\ readErr = FALSE
    /\ reads = <<>>
    /\ failure = "none"

\* serde_json::from_slice::<ClientEvent>(..)
DecodeStep ==
    /\ pc = "decode"
    /\ decoded' = DecodeClientEvent(evObj)
    /\ pc' = "decoded"
    /\ UNCHANGED <<hdr, header, block, calls, body, wbuf, out, pending,
                   nSent, inOpen, rbuf, evObj, ticks, sleeps, snaps, src,
                   readErr, reads, failure>>

SpecDecode == InitDecode /\ [][DecodeStep]_vars

(***************************************************************************)
(* Reading the output back                                                 *)
(***************************************************************************)
\* the framing the protocol asks for: {"version":1}, newline, [
Framing == <<"{", "\"version\"", ":", "1", "}", "\n", "[">>

Count(toks, t) == Cardinality({i \in 1..Len(toks) : toks[i] = t})
Brackets == {"[", "]", "{", "}"}

\* the keys of a serialized object: the tokens in front of a colon
Keys(toks) == {toks[i] : i \in {j \in 1..(Len(toks) - 1) : toks[j + 1] = ":"}}

\* index of the first bracket token at or after i, 0 if none
RECURSIVE NextBracket(_, _)
NextBracket(toks, i) ==
    IF i > Len(toks) THEN 0
    ELSE IF toks[i] \in Brackets THEN i
    ELSE NextBracket(toks, i + 1)

\* the number of fragments  [ { ... } ] ,  that toks is made of from
\* index i on, each holding one object and nothing else; -1 if toks is
\* not such a sequence
RECURSIVE CountFragments(_, _)
CountFragments(toks, i) ==
    IF i > Len(toks) THEN 0
    ELSE IF i + 1 > Len(toks) \/ toks[i] # "[" \/ toks[i + 1] # "{" THEN -1
    ELSE LET j == NextBracket(toks, i + 2)
         IN IF j = 0 \/ j + 2 > Len(toks) THEN -1
            ELSE IF toks[j] # "}" \/ toks[j + 1] # "]" \/ toks[j + 2] # "," THEN -1
            ELSE LET rest == CountFragments(toks, j + 3)
                 IN IF rest < 0 THEN -1 ELSE rest + 1

\* the values of the full_text keys in toks, in order
RECURSIVE FullTexts(_, _)
FullTexts(toks, i) ==
    IF i + 2 > Len(toks) THEN <<>>
    ELSE IF toks[i] = "\"full_text\"" /\ toks[i + 1] = ":"
         THEN <<toks[i + 2]>> \o FullTexts(toks, i + 3)
         ELSE FullTexts(toks, i + 1)

\* nesting depth of arrays after toks
ArrayDepth(toks) == Count(toks, "[") - Count(toks, "]")
\* some ] brings the output back to depth 0: the outer array is closed
OuterClosed(toks) ==
    \E i \in 1..Len(toks) : toks[i] = "]" /\ ArrayDepth(SubSeq(toks, 1, i)) <= 0

InLoop == pc \in {"l188", "l191", "l192", "l193", "l194", "l195", "l196"}

(***************************************************************************)
(* C1                                                                      *)
(***************************************************************************)
C1_State ==
    /\ IsPrefix(out, Framing) \/ IsPrefix(Framing, out)
    /\ InLoop => IsPrefix(Framing, out)
    /\ (src # <<>>) => IsPrefix(Framing, out)
    /\ Count(out \o wbuf, "\"version\"") <= 1
    /\ InLoop => Count(out, "\"version\"") = 1

\* C1: the header is written exactly once and is the first thing on the
\* output: the output is a piece of {"version":1}\n[ until that framing is
\* complete and starts with it from then on, the framing is complete
\* before any snapshot element is built or written, and no step writes a
\* second header or changes what was written.
C1_HeaderOnceFirst ==
    /\ []C1_State
    /\ [][IsPrefix(out, out')]_vars

C1_Witness ==
    /\ ticks >= 2
    /\ snaps >= 2
    /\ IsPrefix(Framing, out)
    /\ Len(out) > Len(Framing)

(***************************************************************************)
(* C3                                                                      *)
(***************************************************************************)
C3_State ==
    /\ ~OuterClosed(out)
    /\ (failure = "none" /\ InLoop) =>
          /\ IsPrefix(Framing, out)
          /\ CountFragments(Drop(out, Len(Framing)), 1) = snaps
    /\ (failure = "none" /\ pc = "l188") => snaps = ticks

\* C3: after N completed ticks the output is the header line, the token [
\* and exactly N fragments [block], each an array of one block followed
\* by a comma; in no state, failed ones included, is the outer array
\* closed.
C3_NFragmentsNeverClosed == C3_State

C3_Witness ==
    /\ pc = "l188"
    /\ failure = "none"
    /\ ticks = MaxTicks
    /\ CountFragments(Drop(out, Len(Framing)), 1) = MaxTicks

(***************************************************************************)
(* C6                                                                      *)
(***************************************************************************)
C6_Step ==
    failure \in {"write", "flush"} =>
        /\ UNCHANGED <<out, wbuf, pc, body, src, snaps, sleeps, ticks, rbuf>>
        /\ IsPrefix(pending, pending')

EmittedTexts == FullTexts(out, 1)

C8_State ==
    /\ failure = "none" =>
          /\ Len(EmittedTexts) = snaps
          /\ \A k \in 1..snaps : EmittedTexts[k] = JsonString(src[k])
          /\ Len(src) \in {snaps, snaps + 1}
    /\ sleeps <= snaps
    /\ pc = "l193" =>
          /\ wbuf = <<>>
          /\ snaps = sleeps + 1
          /\ Len(src) = snaps

\* C8: the k-th snapshot on the output carries the k-th text the content
\* source returned, in order, none skipped or repeated, and when the sleep
\* of a tick begins the snapshot of that tick is on the output and
\* nothing is left in the buffer.
C8_TextsInOrderFlushed == C8_State

C8_Witness ==
    /\ pc = "l193"
    /\ snaps >= 2
    /\ src[1] # src[2]
    /\ EmittedTexts[1] = "\"23:59:59  2024.01.01\""
    /\ EmittedTexts[2] = "\"00:00:00  2024.01.02\""

(***************************************************************************)
(* C2                                                                      *)
(***************************************************************************)
\* C2: while stdin stays open and the host sends nothing, every emitted
\* snapshot is followed by another one: the read-back does not hold up the
\* emission.
C2_EmissionNotBlocked ==
    \A k \in 1..(MaxTicks - 1) :
        [](snaps = k =>
              <>(snaps > k \/ ~inOpen \/ nSent > 0 \/ failure # "none"))

(***************************************************************************)
(* C4                                                                      *)
(***************************************************************************)
\* C4: a read failure on stdin is not fatal: when read_until returns an
\* I/O error main skips it and stays in the streaming loop.
C4_ReadFailureNonFatal == readErr => (pc # "panicked" /\ InLoop)

(***************************************************************************)
(* C5                                                                      *)
(***************************************************************************)
\* at end-of-stream nothing but a failure of the output stops main
C5_Step ==
    (~inOpen /\ failure = "none") =>
        (failure' \in {"none", "write", "flush"} /\ pc' # "exited")

\* C5: once stdin is at end-of-stream, also when it ends in the middle of
\* an event, main does not stop: every snapshot is followed by the next
\* one unless a write or flush of the output fails.
C5_EofKeepsEmitting ==
    /\ \A k \in 0..(MaxTicks - 1) :
          [](( ~inOpen /\ failure = "none" /\ snaps = k) =>
                <>(snaps = k + 1 \/ failure \in {"write", "flush"}))
    /\ [][C5_Step]_vars

\* the first read ended at end-of-stream in the middle of an event, and
\* a second snapshot was emitted after it
C5_Witness ==
    /\ ~inOpen
    /\ failure = "none"
    /\ reads # <<>>
    /\ reads[1] = <<"{">>
    /\ snaps >= 2

(***************************************************************************)
(* C7                                                                      *)
(***************************************************************************)
\* read_until returns bytes that end in '}' and are no click event: main
\* goes on to line 196, nothing is written, nothing fails
C7_ReadStep ==
    (pc = "l195" /\ pc' # "l195" /\ FirstDelim(rbuf', 1) > 0 /\ ~IsClientEvent(rbuf'))
        => (pc' = "l196" /\ failure' = "none" /\ out' = out /\ wbuf' = wbuf)

\* the end of the iteration drops the bytes, whatever they are, and
\* leaves the output as it is
C7_DropStep ==
    (pc = "l196" /\ pc' # "l196")
        => /\ pc' = "l188"
           /\ rbuf' = <<>>
           /\ failure' = "none"
           /\ UNCHANGED <<out, wbuf, body, src, snaps, sleeps>>

\* C7: bytes read up to a '}' that are truncated or no valid ClientEvent
\* do not crash main and are not reported: they are dropped, the output
\* is not touched by that step, and the next snapshot is emitted.
C7_MalformedEventSkipped ==
    /\ [][C7_ReadStep]_vars
    /\ [][C7_DropStep]_vars
    /\ \A k \in 1..(MaxTicks - 1) :
          [](( pc = "l196" /\ FirstDelim(rbuf, 1) > 0 /\ ~IsClientEvent(rbuf)
               /\ snaps = k) =>
                <>(snaps = k + 1 \/ failure \in {"write", "flush"}))

\* the first read returned a truncated event, and a second snapshot was
\* emitted after it
C7_Witness ==
    /\ failure = "none"
    /\ reads # <<>>
    /\ reads[1] = <<"k", "}">>
    /\ snaps >= 2

(***************************************************************************)
(* C9                                                                      *)
(***************************************************************************)
\* C9: every block the loop serializes after with_seperator has exactly
\* the two keys full_text and separator, the latter with the value true.
C9_BlockKeys ==
    body # <<>> =>
        /\ Keys(body) = {"\"full_text\"", "\"separator\""}
        /\ \E i \in 1..(Len(body) - 2) :
              body[i] = "\"separator\"" /\ body[i + 2] = "true"

(***************************************************************************)
(* C10                                                                     *)
(***************************************************************************)
HeaderKeysExpected(h) ==
    {"\"version\""}
    \cup (IF h.click_events # None THEN {"\"click_events\""} ELSE {})
    \cup (IF h.const_signal # None THEN {"\"const_signal\""} ELSE {})
    \cup (IF h.stop_signal # None THEN {"\"stop_signal\""} ELSE {})

\* C10: the keys of a serialized Header are version and the optional
\* fields that are set, an unset field is left out and never written as
\* null, and Header::new(1) gives exactly {"version":1}.
C10_HeaderKeys ==
    pc = "l184" =>
        /\ Keys(header) = HeaderKeysExpected(hdr)
        /\ Count(header, "null") = 0
        /\ Count(header, ":") = Cardinality(HeaderKeysExpected(hdr))
        /\ (hdr = HeaderNew(1) => Flatten(header) = "{\"version\":1}")

C10_Witness ==
    /\ pc = "l184"
    /\ hdr.click_events = Some(TRUE)
    /\ hdr.const_signal = None
    /\ hdr.stop_signal = Some(19)
    /\ Flatten(header) = "{\"version\":1,\"click_events\":true,\"stop_signal\":19}"


(***************************************************************************)
(* C11                                                                     *)
(***************************************************************************)
StringFields == {"short_text", "name", "color", "background", "border",
                 "align", "instance", "markup"}
NumberFields == {"border_top", "border_right", "border_bottom",
                 "border_left", "min_width"}
BoolFields == {"urgent", "seperator", "seperator_block_width"}
OptionalFields == StringFields \cup NumberFields \cup BoolFields

Quoted(s) == "\"" \o s \o "\""

\* the positions of a key in a serialized object
KeyAt(toks, key) ==
    {i \in 1..(Len(toks) - 2) : toks[i] = Quoted(key) /\ toks[i + 1] = ":"}
\* the value written for a key that occurs once
ValueOf(toks, key) == toks[(CHOOSE i \in KeyAt(toks, key) : TRUE) + 2]

\* the JSON text of the value a field was set to
ValueText(f, v) ==
    IF f \in StringFields THEN Quoted(v)
    ELSE IF f \in NumberFields THEN ToString(v)
    ELSE IF v THEN "true" ELSE "false"

\* C11: for every combination of set and unset optional Block fields the
\* serialized object holds full_text, holds every set optional field once
\* with the value it was set to, and holds no key for an unset field.
C11_BlockFieldsExact ==
    pc = "l191" =>
        /\ Cardinality(KeyAt(body, "full_text")) = 1
        /\ ValueOf(body, "full_text") = Quoted(block.full_text)
        /\ \A f \in OptionalFields :
              IF block[f] = None
              THEN KeyAt(body, f) = {}
              ELSE /\ Cardinality(KeyAt(body, f)) = 1
                   /\ ValueOf(body, f) = ValueText(f, block[f][1])
        /\ Keys(body) = {Quoted("full_text")}
                        \cup {Quoted(f) : f \in {g \in OptionalFields : block[g] # None}}
        /\ Count(body, "null") = 0

C11_Witness ==
    /\ pc = "l191"
    /\ block.color # None
    /\ block.seperator = Some(FALSE)
    /\ Flatten(body) = "{\"full_text\":\"A\",\"color\":\"#ff0000\",\"seperator\":false}"


(***************************************************************************)
(* C12                                                                     *)
(***************************************************************************)
\* the field a mutator sets
MutatorField(m) ==
    IF m = "color" THEN "color"
    ELSE IF m = "background" THEN "background"
    ELSE "seperator"

\* the value a mutator call sets it to
MutatorValue(call) ==
    IF call[1] = "with_seperator" THEN Some(TRUE) ELSE Some(call[2])

\* the calls of one mutator among the calls made
CallsOf(m) == {i \in 1..Len(calls) : calls[i][1] = m}
LastCallOf(m) == calls[CHOOSE i \in CallsOf(m) : \A j \in CallsOf(m) : j <= i]

\* a mutator call sets its own field and leaves every other field alone
C12_Step ==
    (calls' # calls) =>
        LET call == calls'[Len(calls')]
        IN /\ block'[MutatorField(call[1])] = MutatorValue(call)
           /\ \A f \in (DOMAIN block) \ {MutatorField(call[1])} :
                 block'[f] = block[f]

\* what a mutator's field holds depends on the calls of that mutator only
C12_State ==
    /\ block.full_text = "A"
    /\ \A m \in {"color", "background", "with_seperator"} :
          CallsOf(m) # {} => block[MutatorField(m)] = MutatorValue(LastCallOf(m))
    /\ \A m \in {"background", "with_seperator"} :
          CallsOf(m) = {} => block[MutatorField(m)] = None

\* C12: the Block mutators are independent and additive: every call of
\* color, background or with_seperator changes its own field only,
\* full_text and the fields set by other mutators or before keep their
\* values, and the block reached does not depend on the order in which
\* different mutators were called.
C12_MutatorsIndependent ==
    /\ []C12_State
    /\ [][C12_Step]_vars

C12_Witness ==
    /\ Len(calls) = 3
    /\ calls[1][1] = "background"
    /\ calls[2][1] = "with_seperator"
    /\ calls[3][1] = "color"
    /\ block.background = Some("#ff0000")
    /\ block.seperator = Some(TRUE)
    /\ block.color = Some("#00ff0080")
    /\ block.name = Some("clock")
    /\ block.border_top = Some(1)


(***************************************************************************)
(* C13                                                                     *)
(***************************************************************************)
TenFields ==
    {"name", "instance", "x", "y", "button", "event", "relative_x",
     "relative_y", "width", "height"}

\* C13: decoding an object as a ClientEvent gives an error whenever one
\* of the ten fields is missing, and succeeds, with the ten fields and
\* without the unknown ones, when all ten are there, extra keys or not.
C13_DecodeRequiresTenFields ==
    pc = "decoded" =>
        /\ (\E f \in TenFields : f \notin evObj) => decoded.result = "Err"
        /\ (\A f \in TenFields : f \in evObj) =>
              (decoded.result = "Ok" /\ decoded.fields = TenFields)

C13_Witness ==
    /\ pc = "decoded"
    /\ evObj = (TenFields \ {"height"}) \cup {"scale"}
    /\ decoded.result = "Err"


(***************************************************************************)
(* C14                                                                     *)
(***************************************************************************)
\* main is about to sleep, or is inside read_until
AtBlockingStep == pc \in {"l193", "l195"}

\* C14: whenever main is at a blocking step, the sleep or the read of
\* stdin, nothing is left in the buffer and the output is the header
\* line, [ and a whole number of complete fragments [block], .
C14_NoTornWrites ==
    AtBlockingStep =>
        /\ wbuf = <<>>
        /\ IsPrefix(Framing, out)
        /\ CountFragments(Drop(out, Len(Framing)), 1) = snaps
        /\ snaps >= 1

C14_Witness ==
    /\ pc = "l195"
    /\ inOpen
    /\ pending = <<>>
    /\ snaps = 2
    /\ wbuf = <<>>

(***************************************************************************)
(* C15                                                                     *)
(***************************************************************************)
\* C15: with a header that does not set click_events, as Header::new(1)
\* builds it, the loop performs no read of stdin.
C15_NoReadWithoutClickEvents ==
    hdr.click_events = None => (pc # "l195" /\ reads = <<>>)

(***************************************************************************)
(* C16                                                                     *)
(***************************************************************************)
\* the bytes main has taken from stdin, in order, read by read
RECURSIVE Concat(_)
Concat(ss) == IF ss = <<>> THEN <<>> ELSE ss[1] \o Concat(Tail(ss))

C16_Step ==
    /\ (pending' # pending /\ nSent' = nSent) =>
          /\ pc = "l195"
          /\ Count(rbuf, "}") = 0
          /\ rbuf' \o pending' = rbuf \o pending
    /\ (reads' # reads) =>
          /\ pc = "l195"
          /\ reads' = Append(reads, rbuf')
          /\ \/ Count(rbuf', "}") = 1 /\ rbuf'[Len(rbuf')] = "}"
             \/ Count(rbuf', "}") = 0 /\ ~inOpen /\ pending' = <<>>

C16_State ==
    /\ Len(reads) <= sleeps
    /\ failure = "none" =>
          Len(reads) = IF pc = "l196" THEN ticks + 1 ELSE ticks
    /\ Count(Concat(reads), "}") <= Len(reads)
    /\ Len(Concat(reads)) + Len(pending)
          + (IF pc = "l195" \/ failure = "read" THEN Len(rbuf) ELSE 0) = nSent

\* C16: a tick performs one read-back, after its sleep, which takes the
\* bytes of stdin in order up to and including the first '}' (or up to
\* end-of-stream) and none beyond it, so that of the events pending at
\* most one is consumed per tick.
C16_OneEventPerTick ==
    /\ []C16_State
    /\ [][C16_Step]_vars

C16_Witness ==
    /\ pc = "l196"
    /\ reads = << <<"}">> >>
    /\ pending = <<"}", "}">>
    /\ ticks = 0

(***************************************************************************)
(* C17                                                                     *)
(***************************************************************************)
\* the fragment the loop writes for a text
FragmentOf(t) ==
    <<"[", "{", "\"full_text\"", ":", Quoted(t), ",", "\"seperator\"", ":",
      "true", "}", "]", ",">>

\* the output after the first n texts of the content source
RECURSIVE OutputFor(_, _)
OutputFor(texts, n) ==
    IF n = 0 THEN Framing
    ELSE OutputFor(texts, n - 1) \o FragmentOf(texts[n])

\* C17: the bytes written are a function of the texts of the content
\* source alone: whatever stdin delivered, the output after n snapshots is
\* the framing and the fragments of the first n texts, and no byte read
\* is kept beyond the end of its tick.
C17_OutputIgnoresInput ==
    /\ (failure = "none" /\ InLoop) => out = OutputFor(src, snaps)
    /\ (failure = "none" /\ InLoop) => IsPrefix(out \o wbuf, OutputFor(src, Len(src)))
    /\ src # <<>> => block = WithSeperator(BlockNew(src[Len(src)]))
    /\ pc = "l188" => rbuf = <<>>

C17_Witness ==
    /\ failure = "none"
    /\ pc = "l193"
    /\ snaps = 2
    /\ reads = << <<"{", "k", "}">> >>
    /\ out = OutputFor(src, 2)

====
